---- MODULE Spec2Model ----
(***************************************************************************)
(* Model of the dataset store of electron/main/database/index.ts: one      *)
(* SQLite file per imported chat session in a dataset directory, the       *)
(* import transaction, the session catalog (list / get / delete) and the   *)
(* analytics queries.                                                      *)
(*                                                                         *)
(* A dataset file is modelled by its committed tables (meta, member,       *)
(* message), by the existence of its three artifacts <id>.db, <id>.db-wal  *)
(* and <id>.db-shm, by whether SQLite can open and read it, and by the     *)
(* number of handles on it that are open.  Every exported function of the  *)
(* module is synchronous, so one call is one step; `ret` is what the last  *)
(* call returned (or that it threw).                                       *)
(***************************************************************************)
EXTENDS Integers, Sequences, FiniteSets, TLC

VARIABLES dir, ret

vars == <<dir, ret>>

(***************************************************************************)
(* Bounds of the model.                                                    *)
(***************************************************************************)
\* Date.now() takes the values 0, 1000, ..., MaxNow * 1000 (milliseconds).
MaxNow == 1
\* The random suffix of a session id takes the values 0..MaxRand.
MaxRand == 0
\* Longest member list / message list of a generated ParseResult.
MaxMembers == 2
MaxMessages == 2
\* Most rows a message table holds (an import that would exceed it is not
\* taken: repeated imports into one file would grow the table for ever).
MaxRows == 3
\* Most committed imports one file takes (every import into it adds a meta row).
MaxImports == 2
\* Most handles left open on one file (a call that would leave one more is
\* not taken).
MaxHandles == 1
\* Most parsers a registry holds.
MaxParsers == 3

(***************************************************************************)
(* Values.                                                                 *)
(***************************************************************************)
\* The literal member name of the system sentinel (index.ts writes it as a
\* four-character Chinese string meaning "system message").
SystemName == "sys"

\* An absent optional number (TimeFilter.startTs / endTs undefined).
Undefined == 0 - 1

\* Offset of the analysis environment's local time from UTC, in seconds
\* (strftime(..., 'unixepoch', 'localtime')).
TzOffset == 8 * 3600

\* Two timestamps (unix seconds) of one local day, at 09:00 and 14:00.
T9 == 1 * 3600
T14 == 6 * 3600
Timestamps == {T9, T14}

Times == {k * 1000 : k \in 0..MaxNow}
Rands == 0..MaxRand

\* generateSessionId: `chat_${Date.now()}_${random}`; the id is the pair.
generateSessionId(now, rnd) == <<now, rnd>>

Ids == {generateSessionId(t, r) : t \in Times, r \in Rands}

\* The position of <id>.db in the directory listing (fs.readdirSync).
IdOrder(id) == (id[1] \div 1000) * (MaxRand + 1) + id[2]

(***************************************************************************)
(* Inputs: ParseResults.                                                   *)
(***************************************************************************)
SeqUpTo(S, n) == UNION {[1..k -> S] : k \in 0..n}

PlatformIds == {"p1", "p2"}
MemberInputs ==
    {[platformId |-> "p1", name |-> "A"], [platformId |-> "p1", name |-> SystemName],
     [platformId |-> "p2", name |-> "A"]}
\* "px" is the platform id of no member.
MessageInputs ==
    [senderPlatformId : PlatformIds \cup {"px"}, timestamp : {T9}, type : {0}]

ParseResults ==
    [meta : {[name |-> "g"]},
     members : SeqUpTo(MemberInputs, MaxMembers),
     messages : SeqUpTo(MessageInputs, MaxMessages)]

Msg(p, t) == [senderPlatformId |-> p, timestamp |-> t, type |-> 0]

\* The dataset of the specification's scenario: A sends 7 messages, B sends
\* 2, the system sentinel 5, all on one day at 09:00 and 14:00 local time.
ScenarioResult ==
    [meta |-> [name |-> "scenario"],
     members |-> <<[platformId |-> "a", name |-> "A"],
                   [platformId |-> "b", name |-> "B"],
                   [platformId |-> "s", name |-> SystemName]>>,
     messages |-> <<Msg("a", T9), Msg("a", T9), Msg("a", T9), Msg("a", T9),
                    Msg("s", T9), Msg("s", T9), Msg("b", T9),
                    Msg("a", T14), Msg("a", T14), Msg("a", T14),
                    Msg("b", T14), Msg("s", T14), Msg("s", T14), Msg("s", T14)>>]

\* 01:00 local time of the next local day (17:00 of the same day in UTC).
TNight == 17 * 3600

\* A dataset of two local days and two message types, with messages of the
\* system sentinel on both days.
TwoDayResult ==
    [meta |-> [name |-> "twodays"],
     members |-> <<[platformId |-> "a", name |-> "A"],
                   [platformId |-> "b", name |-> "B"],
                   [platformId |-> "c", name |-> "C"],
                   [platformId |-> "s", name |-> SystemName]>>,
     messages |-> <<[senderPlatformId |-> "s", timestamp |-> T9, type |-> 0],
                    [senderPlatformId |-> "c", timestamp |-> T9, type |-> 0],
                    [senderPlatformId |-> "a", timestamp |-> T14, type |-> 1],
                    [senderPlatformId |-> "a", timestamp |-> T14, type |-> 0],
                    [senderPlatformId |-> "b", timestamp |-> TNight, type |-> 0],
                    [senderPlatformId |-> "a", timestamp |-> TNight, type |-> 1],
                    [senderPlatformId |-> "s", timestamp |-> TNight, type |-> 1]>>]

\* A few small ParseResults, for the runs with several datasets.
SampleResults ==
    {[meta |-> [name |-> "g"], members |-> <<>>, messages |-> <<>>],
     [meta |-> [name |-> "g"],
      members |-> <<[platformId |-> "p1", name |-> "A"]>>,
      messages |-> <<Msg("p1", T9)>>],
     [meta |-> [name |-> "h"],
      members |-> <<[platformId |-> "p1", name |-> "A"],
                    [platformId |-> "p2", name |-> SystemName]>>,
      messages |-> <<Msg("p2", T9), Msg("px", T9), Msg("p1", T14)>>]}

(***************************************************************************)
(* The dataset directory.                                                  *)
(***************************************************************************)
EmptyTables == [meta |-> <<>>, member |-> <<>>, message |-> <<>>]

\* No artifact of the id exists.  `readable` of a file that exists is "yes"
\* for a dataset SQLite reads, "noopen" for a file `new Database(path)`
\* throws on (a directory, a file without permission) and "noread" for a file
\* that opens and whose first statement throws (a file that is not a
\* database, a database of another schema).  `open` counts the handles on
\* the file that are open.
NoFile ==
    [exists |-> FALSE, wal |-> FALSE, shm |-> FALSE, tables |-> EmptyTables,
     readable |-> "yes", open |-> 0]

\* fs.existsSync(getDbPath(id))
getDbPath(d, id) == d[id].exists

(***************************************************************************)
(* createDatabase: opens <id>.db read-write, creating it when absent, in   *)
(* WAL mode (the -wal and -shm artifacts exist while the handle is open),  *)
(* and creates the three tables IF NOT EXISTS: the tables of an existing   *)
(* file are kept.                                                          *)
(***************************************************************************)
createDatabase(d, id) ==
    [d EXCEPT ![id].exists = TRUE, ![id].wal = TRUE, ![id].shm = TRUE,
              ![id].tables = IF d[id].exists THEN @ ELSE EmptyTables,
              ![id].open = @ + 1]

\* createDatabase on a file that exists and is not a dataset: "threw" says
\* whether it throws.  new Database(dbPath) throws on a "noopen" file and
\* no handle exists; on a "noread" file it returns a handle and the pragma
\* throws, past the only reference to the handle.
createDatabaseThrows(d, id) ==
    IF d[id].exists /\ d[id].readable # "yes"
    THEN [threw |-> TRUE,
          dir |-> IF d[id].readable = "noread" THEN [d EXCEPT ![id].open = @ + 1] ELSE d]
    ELSE [threw |-> FALSE, dir |-> createDatabase(d, id)]

\* db.close() of a read-write handle, the last one on the file: SQLite
\* checkpoints and removes the -wal and -shm artifacts.
closeDatabase(d, id) ==
    [d EXCEPT ![id].wal = FALSE, ![id].shm = FALSE, ![id].open = @ - 1]

\* db.close() of a read-only handle.
closeHandle(d, id) == [d EXCEPT ![id].open = @ - 1]

(***************************************************************************)
(* The import transaction, statement by statement.                         *)
(***************************************************************************)
\* INSERT INTO meta (name, ..., imported_at)
insertMeta(t, meta, now) ==
    [t EXCEPT !.meta = Append(@, [name |-> meta.name, imported_at |-> now \div 1000])]

HasMember(t, pid) == \E i \in DOMAIN t.member : t.member[i].platform_id = pid

\* INSERT OR IGNORE INTO member (platform_id, name): platform_id is UNIQUE,
\* id is AUTOINCREMENT (no member row is ever deleted).
insertMember(t, m) ==
    IF HasMember(t, m.platformId) THEN t
    ELSE [t EXCEPT !.member = Append(@, [id |-> Len(t.member) + 1,
                                          platform_id |-> m.platformId,
                                          name |-> m.name])]

\* A variant that leaves the name of an existing member as it is.
updateMemberNameKeep(t, m) == t

\* UPDATE member SET name = ? WHERE platform_id = ?
updateMemberName(t, m) ==
    [t EXCEPT !.member = [i \in DOMAIN t.member |->
        IF t.member[i].platform_id = m.platformId
        THEN [t.member[i] EXCEPT !.name = m.name]
        ELSE t.member[i]]]

\* SELECT id FROM member WHERE platform_id = ?
getMemberId(t, pid) ==
    t.member[CHOOSE i \in DOMAIN t.member : t.member[i].platform_id = pid].id

\* INSERT INTO message (sender_id, ts, type, content)
insertMessage(t, senderId, msg) ==
    [t EXCEPT !.message = Append(@, [id |-> Len(t.message) + 1, sender_id |-> senderId,
                                      ts |-> msg.timestamp, type |-> msg.type])]

\* The members loop (index.ts 170-176) from member i on: `map` is memberIdMap.
\* Statement number 1 is the meta insert, 1 + i the upsert of member i and
\* 1 + Len(members) + j the insert of message j; the statement numbered
\* `fault` throws (0: none does).
RECURSIVE importMembers(_, _, _, _, _)
importMembers(t, map, members, i, fault) ==
    IF i > Len(members) THEN [tables |-> t, map |-> map, failed |-> FALSE]
    ELSE IF fault = 1 + i THEN [tables |-> t, map |-> map, failed |-> TRUE]
    ELSE LET m == members[i]
             t1 == updateMemberName(insertMember(t, m), m)
         IN  importMembers(t1, (m.platformId :> getMemberId(t1, m.platformId)) @@ map,
                           members, i + 1, fault)

\* A variant of the messages loop that stores a message with an unresolved
\* sender too, under the sender id 0.
RECURSIVE importMessagesKeepUnresolved(_, _, _, _, _)
importMessagesKeepUnresolved(t, map, messages, j, fault) ==
    IF j > Len(messages) THEN [tables |-> t, failed |-> FALSE]
    ELSE LET msg == messages[j]
             senderId == IF msg.senderPlatformId \in DOMAIN map
                         THEN map[msg.senderPlatformId] ELSE 0
         IN  IF fault = j THEN [tables |-> t, failed |-> TRUE]
             ELSE importMessagesKeepUnresolved(insertMessage(t, senderId, msg),
                                               map, messages, j + 1, fault)

\* The messages loop (index.ts 183-188): a message whose sender is not in
\* memberIdMap is skipped.
RECURSIVE importMessages(_, _, _, _, _)
importMessages(t, map, messages, j, fault) ==
    IF j > Len(messages) THEN [tables |-> t, failed |-> FALSE]
    ELSE LET msg == messages[j] IN
         IF msg.senderPlatformId \notin DOMAIN map
         THEN importMessages(t, map, messages, j + 1, fault)
         ELSE IF fault = j THEN [tables |-> t, failed |-> TRUE]
         ELSE importMessages(insertMessage(t, map[msg.senderPlatformId], msg),
                             map, messages, j + 1, fault)

\* The body of the transaction function (index.ts 144-189): the tables as the
\* statements left them, and whether one of them threw.
transactionBody(t, pr, now, fault) ==
    IF fault = 1 THEN [tables |-> t, failed |-> TRUE]
    ELSE LET ms == importMembers(insertMeta(t, pr.meta, now), <<>>, pr.members, 1, fault)
         IN  IF ms.failed THEN [tables |-> ms.tables, failed |-> TRUE]
             ELSE importMessages(ms.tables, ms.map, pr.messages, 1,
                                 fault - (1 + Len(pr.members)))

\* A variant without the rollback: the rows written before the statement
\* that throws stay.
importTransactionNoRollback(t, pr, now, fault) == transactionBody(t, pr, now, fault)

\* db.transaction(fn)(): COMMIT when fn returns, ROLLBACK when it throws.
importTransaction(t, pr, now, fault) ==
    LET r == transactionBody(t, pr, now, fault)
    IN  IF r.failed THEN [tables |-> t, failed |-> TRUE] ELSE r

\* importData (index.ts 131-214).
\* importData (index.ts 131-214): createDatabase is called before the try;
\* the finally closes the handle after the transaction, committed or not.
importData(d, pr, now, rnd, fault) ==
    LET sessionId == generateSessionId(now, rnd)
        c == createDatabaseThrows(d, sessionId)
        d1 == c.dir
        r == importTransaction(d1[sessionId].tables, pr, now, fault)
        d2 == [d1 EXCEPT ![sessionId].tables = r.tables]
        call == [op |-> "importData", id |-> sessionId, arg |-> pr,
                 kind |-> "throw", value |-> sessionId]
    IN  IF c.threw THEN [dir |-> d1, ret |-> call]
        ELSE [dir |-> closeDatabase(d2, sessionId),
              ret |-> [call EXCEPT !.kind = IF r.failed THEN "throw" ELSE "value"]]

Faults == 0..(1 + MaxMembers + MaxMessages)

ImportData(pr, now, rnd, fault) ==
    LET sessionId == generateSessionId(now, rnd)
        r == importData(dir, pr, now, rnd, fault)
    IN  /\ dir[sessionId].exists =>
              /\ Len(dir[sessionId].tables.meta) < MaxImports
              /\ Len(dir[sessionId].tables.message) + Len(pr.messages) <= MaxRows
        /\ r.dir[sessionId].open <= MaxHandles
        /\ dir' = r.dir
        /\ ret' = r.ret

(***************************************************************************)
(* The session catalog.                                                    *)
(***************************************************************************)
NoId == <<>>

\* The rows of `message msg JOIN member m ON msg.sender_id = m.id`, as pairs
\* of row positions.
JoinRows(t) ==
    {<<i, k>> \in (DOMAIN t.message) \X (DOMAIN t.member) :
        t.message[i].sender_id = t.member[k].id}

\* A variant that counts the messages of every member.
countMessagesAll(t) == Cardinality(JoinRows(t))

\* SELECT COUNT(*) FROM message msg JOIN member m ... WHERE m.name != <system>
countMessages(t) ==
    Cardinality({r \in JoinRows(t) : t.member[r[2]].name # SystemName})

\* SELECT COUNT(*) FROM member WHERE name != <system>
countMembers(t) ==
    Cardinality({k \in DOMAIN t.member : t.member[k].name # SystemName})

\* The AnalysisSession built from a dataset whose meta table has a row
\* (SELECT * FROM meta LIMIT 1 gives the first).
sessionOf(id, t) ==
    [id |-> id, name |-> t.meta[1].name, importedAt |-> t.meta[1].imported_at,
     messageCount |-> countMessages(t), memberCount |-> countMembers(t)]

\* A variant that does not look whether <id>.db exists: a read-only open of
\* a file that does not exist throws.
openDatabaseNoCheck(d, id, leave) ==
    IF ~getDbPath(d, id) \/ d[id].readable = "noopen"
    THEN [db |-> FALSE, threw |-> TRUE, dir |-> d]
    ELSE IF d[id].readable = "noread"
    THEN [db |-> FALSE, threw |-> TRUE, dir |-> [d EXCEPT ![id].open = @ + 1]]
    ELSE [db |-> TRUE, threw |-> FALSE,
          dir |-> [d EXCEPT ![id].wal = @ \/ leave, ![id].shm = @ \/ leave,
                            ![id].open = @ + 1]]

\* openDatabase (index.ts 118-126): null when <id>.db does not exist, else a
\* read-only handle on it.  A read-only handle on a WAL database needs the
\* -wal and -shm artifacts and cannot remove them when it closes: `leave`
\* says whether the handle's close leaves them behind.  On a file that is
\* not a dataset it throws: new Database throws ("noopen"), or the pragma
\* throws and the handle new Database returned stays open ("noread").
openDatabase(d, id, leave) ==
    IF ~getDbPath(d, id) THEN [db |-> FALSE, threw |-> FALSE, dir |-> d]
    ELSE IF d[id].readable = "noopen" THEN [db |-> FALSE, threw |-> TRUE, dir |-> d]
    ELSE IF d[id].readable = "noread"
    THEN [db |-> FALSE, threw |-> TRUE, dir |-> [d EXCEPT ![id].open = @ + 1]]
    ELSE [db |-> TRUE, threw |-> FALSE,
          dir |-> [d EXCEPT ![id].wal = @ \/ leave, ![id].shm = @ \/ leave,
                            ![id].open = @ + 1]]

\* getSession (index.ts 298-342): openDatabase is called before the try, the
\* finally closes the handle.
getSession(d, id, leave) ==
    LET o == openDatabase(d, id, leave)
        t == d[id].tables
        null == [op |-> "getSession", id |-> id, arg |-> 0, kind |-> "null", value |-> 0]
    IN  IF o.threw THEN [dir |-> o.dir, ret |-> [null EXCEPT !.kind = "throw"]]
        ELSE IF ~o.db THEN [dir |-> o.dir, ret |-> null]
        ELSE IF Len(t.meta) = 0 THEN [dir |-> closeHandle(o.dir, id), ret |-> null]
        ELSE [dir |-> closeHandle(o.dir, id),
              ret |-> [null EXCEPT !.kind = "value", !.value = sessionOf(id, t)]]

\* The .db files of the directory in listing order, from position n on.
RECURSIVE filesFrom(_, _)
filesFrom(d, n) ==
    IF n >= Cardinality(Ids) THEN <<>>
    ELSE LET id == CHOOSE i \in Ids : IdOrder(i) = n
         IN  (IF d[id].exists THEN <<id>> ELSE <<>>) \o filesFrom(d, n + 1)

\* sessions.sort((a, b) => b.importedAt - a.importedAt): stable, descending.
RECURSIVE sortSessions(_)
sortSessions(s) ==
    IF Len(s) <= 1 THEN s
    ELSE LET rest == sortSessions(Tail(s))
             x == Head(s)
             before == SelectSeq(rest, LAMBDA y : y.importedAt > x.importedAt)
             after == SelectSeq(rest, LAMBDA y : y.importedAt <= x.importedAt)
         IN  before \o <<x>> \o after

\* A variant of the loop without the try / catch around a file: the first
\* file that is not a dataset ends the scan with its exception.
RECURSIVE scanFilesNoCatch(_, _)
scanFilesNoCatch(d, files) ==
    IF files = <<>> THEN [dir |-> d, sessions |-> <<>>, threw |-> FALSE]
    ELSE LET id == Head(files)
             t == d[id].tables
         IN  IF d[id].readable = "noopen"
             THEN [dir |-> d, sessions |-> <<>>, threw |-> TRUE]
             ELSE IF d[id].readable = "noread"
             THEN [dir |-> [d EXCEPT ![id].open = @ + 1], sessions |-> <<>>,
                   threw |-> TRUE]
             ELSE LET rest == scanFilesNoCatch(closeDatabase(createDatabase(d, id), id),
                                               Tail(files))
                  IN  [rest EXCEPT !.sessions =
                          (IF Len(t.meta) > 0 THEN <<sessionOf(id, t)>> ELSE <<>>) \o @]

\* The loop of getAllSessions over the files (index.ts 234-288).  Each file
\* is opened read-write in WAL mode, as createDatabase opens it, and closed
\* when it was read; a dataset without a meta row adds no session.  What a
\* file throws is caught and the file skipped: new Database throws on a
\* "noopen" file; on a "noread" file the pragma throws, and db.close() (the
\* last statement of the try) is not reached.
RECURSIVE scanFiles(_, _)
scanFiles(d, files) ==
    IF files = <<>> THEN [dir |-> d, sessions |-> <<>>, threw |-> FALSE]
    ELSE LET id == Head(files)
             t == d[id].tables
         IN  IF d[id].readable = "noopen" THEN scanFiles(d, Tail(files))
             ELSE IF d[id].readable = "noread"
             THEN scanFiles([d EXCEPT ![id].open = @ + 1], Tail(files))
             ELSE LET rest == scanFiles(closeDatabase(createDatabase(d, id), id),
                                        Tail(files))
                  IN  [rest EXCEPT !.sessions =
                          (IF Len(t.meta) > 0 THEN <<sessionOf(id, t)>> ELSE <<>>) \o @]

\* getAllSessions (index.ts 219-293).
getAllSessions(d) ==
    LET r == scanFiles(d, filesFrom(d, 0))
    IN  [dir |-> r.dir,
         ret |-> [op |-> "getAllSessions", id |-> NoId, arg |-> 0,
                  kind |-> IF r.threw THEN "throw" ELSE "value",
                  value |-> sortSessions(r.sessions)]]

\* A variant that removes the -wal and -shm artifacts and not <id>.db.
deleteSessionKeepPrimary(d, id, fail) ==
    [dir |-> [d EXCEPT ![id].wal = FALSE, ![id].shm = FALSE],
     ret |-> [op |-> "deleteSession", id |-> id,
              arg |-> [fail |-> fail,
                       existed |-> d[id].exists /\ Len(d[id].tables.meta) > 0],
              kind |-> "value", value |-> TRUE]]

\* A variant that removes <id>.db and the -wal artifact and not the -shm one.
deleteSessionForgetShm(d, id, fail) ==
    LET result(dd, v) ==
            [dir |-> dd,
             ret |-> [op |-> "deleteSession", id |-> id,
                      arg |-> [fail |-> fail,
                               existed |-> d[id].exists /\ Len(d[id].tables.meta) > 0],
                      kind |-> "value", value |-> v]]
        d1 == IF d[id].exists
              THEN [d EXCEPT ![id].exists = FALSE, ![id].tables = EmptyTables,
                             ![id].readable = "yes"]
              ELSE d
        d2 == IF d1[id].wal THEN [d1 EXCEPT ![id].wal = FALSE] ELSE d1
    IN  IF d[id].exists /\ fail = "db" THEN result(d, FALSE)
        ELSE IF d1[id].wal /\ fail = "wal" THEN result(d1, FALSE)
        ELSE result(d2, TRUE)

\* deleteSession (index.ts 347-360).  `fail` names the artifact whose
\* unlinkSync throws (a locked file), "none" when none does; an artifact
\* that does not exist is not unlinked.  The call is recorded with whether
\* the session existed (a dataset with a meta row) when it was made.
deleteSession(d, id, fail) ==
    LET result(dd, v) ==
            [dir |-> dd,
             ret |-> [op |-> "deleteSession", id |-> id,
                      arg |-> [fail |-> fail,
                               existed |-> d[id].exists /\ Len(d[id].tables.meta) > 0],
                      kind |-> "value", value |-> v]]
        d1 == IF d[id].exists
              THEN [d EXCEPT ![id].exists = FALSE, ![id].tables = EmptyTables,
                             ![id].readable = "yes"]
              ELSE d
        d2 == IF d1[id].wal THEN [d1 EXCEPT ![id].wal = FALSE] ELSE d1
        d3 == IF d2[id].shm THEN [d2 EXCEPT ![id].shm = FALSE] ELSE d2
    IN  IF d[id].exists /\ fail = "db" THEN result(d, FALSE)
        ELSE IF d1[id].wal /\ fail = "wal" THEN result(d1, FALSE)
        ELSE IF d2[id].shm /\ fail = "shm" THEN result(d2, FALSE)
        ELSE result(d3, TRUE)

\* No file has more open handles than the model follows.
WithinHandles(d) == \A id \in Ids : d[id].open <= MaxHandles

GetAllSessions ==
    LET r == getAllSessions(dir)
    IN  WithinHandles(r.dir) /\ dir' = r.dir /\ ret' = r.ret

GetSession(id, leave) ==
    LET r == getSession(dir, id, leave)
    IN  WithinHandles(r.dir) /\ dir' = r.dir /\ ret' = r.ret

DeleteSession(id, fail) ==
    LET r == deleteSession(dir, id, fail) IN dir' = r.dir /\ ret' = r.ret

(***************************************************************************)
(* Analytics queries.  An SQL clause is the sequence of its words: "WHERE",*)
(* "AND" and the conditions "ts>=?", "ts<=?" (each takes the next bound    *)
(* parameter) and "notsys" (m.name != <system>).                           *)
(***************************************************************************)
TimeFilters ==
    [startTs : {Undefined} \cup Timestamps, endTs : {Undefined} \cup Timestamps]

\* conditions.join(' AND ')
RECURSIVE joinAnd(_)
joinAnd(conds) ==
    IF Len(conds) <= 1 THEN conds
    ELSE <<Head(conds), "AND">> \o joinAnd(Tail(conds))

\* buildTimeFilter (index.ts 375-392)
buildTimeFilter(filter) ==
    LET c1 == IF filter.startTs # Undefined THEN <<"ts>=?">> ELSE <<>>
        p1 == IF filter.startTs # Undefined THEN <<filter.startTs>> ELSE <<>>
        c2 == IF filter.endTs # Undefined THEN <<"ts<=?">> ELSE <<>>
        p2 == IF filter.endTs # Undefined THEN <<filter.endTs>> ELSE <<>>
        conditions == c1 \o c2
    IN  [clause |-> IF Len(conditions) > 0 THEN <<"WHERE">> \o joinAnd(conditions)
                    ELSE <<>>,
         params |-> p1 \o p2]

Includes(clause, word) == \E i \in DOMAIN clause : clause[i] = word

\* A variant that leaves a clause with a time filter as it is.
buildSystemMessageFilterDropped(existingClause) ==
    IF Includes(existingClause, "WHERE")
    THEN existingClause
    ELSE <<"WHERE", "notsys">>

\* buildSystemMessageFilter (index.ts 398-406)
buildSystemMessageFilter(existingClause) ==
    IF Includes(existingClause, "WHERE")
    THEN existingClause \o <<"AND", "notsys">>
    ELSE <<"WHERE", "notsys">>

\* clause.replace('WHERE', 'AND'): the first occurrence.
replaceWhere(clause) ==
    IF ~Includes(clause, "WHERE") THEN clause
    ELSE LET i == CHOOSE k \in DOMAIN clause :
                      clause[k] = "WHERE" /\ \A j \in 1..(k - 1) : clause[j] # "WHERE"
         IN  [clause EXCEPT ![i] = "AND"]

IsCond(w) == w \in {"ts>=?", "ts<=?", "notsys"}

\* cond (AND cond)*
RECURSIVE IsConjunction(_)
IsConjunction(words) ==
    /\ Len(words) >= 1
    /\ IsCond(words[1])
    /\ \/ Len(words) = 1
       \/ Len(words) >= 3 /\ words[2] = "AND" /\ IsConjunction(Tail(Tail(words)))

\* SQLite prepares `... FROM message msg JOIN member m ON ... <clause> ...`:
\* the clause is empty or WHERE cond (AND cond)*.
WhereParses(clause) ==
    clause = <<>> \/ (Head(clause) = "WHERE" /\ IsConjunction(Tail(clause)))

\* `... ON m.id = msg.sender_id <tail> ...`: the tail is empty or (AND cond)+.
OnParses(tail) == tail = <<>> \/ (Head(tail) = "AND" /\ IsConjunction(Tail(tail)))

\* The number of parameters the words before position i take.
ParamsBefore(words, i) ==
    Cardinality({j \in 1..(i - 1) : words[j] \in {"ts>=?", "ts<=?"}})

\* Whether the message row msg joined with the member row m satisfies every
\* condition of the words, with the parameters bound in order.
Satisfies(words, params, msg, m) ==
    \A i \in DOMAIN words :
        CASE words[i] = "ts>=?" -> msg.ts >= params[ParamsBefore(words, i) + 1]
          [] words[i] = "ts<=?" -> msg.ts <= params[ParamsBefore(words, i) + 1]
          [] words[i] = "notsys" -> m.name # SystemName
          [] OTHER -> TRUE

\* strftime('%H', ts, 'unixepoch', 'localtime') cast to an integer.
hourOf(ts) == ((ts + TzOffset) \div 3600) % 24

\* A variant that truncates instead of rounding.
percentageTruncated(count, total) ==
    IF total > 0 THEN (10000 * count) \div total ELSE 0

\* Math.round((count / total) * 10000) / 100 in hundredths: Math.round is
\* floor(x + 1/2).  (For totals below 32 no quotient lies on a half, and the
\* double arithmetic of the source rounds as the exact quotient does.)
percentage(count, total) ==
    IF total > 0 THEN (20000 * count + total) \div (2 * total) ELSE 0

\* The total of getMemberActivity (index.ts 447-457).
totalMessages(t, clause, params) ==
    Cardinality({r \in JoinRows(t) :
        Satisfies(buildSystemMessageFilter(clause), params,
                  t.message[r[1]], t.member[r[2]])})

\* A variant of the ranking query that leaves the time filter out of the
\* join condition.
memberRowsIgnoreFilter(t, onTail, params) ==
    LET count(k) == Cardinality({i \in DOMAIN t.message :
                        /\ t.message[i].sender_id = t.member[k].id
                        /\ t.member[k].name # SystemName})
    IN  {[memberId |-> t.member[k].id, platformId |-> t.member[k].platform_id,
          name |-> t.member[k].name, messageCount |-> count(k)] :
            k \in {j \in DOMAIN t.member :
                      t.member[j].name # SystemName /\ count(j) > 0}}

\* The rows of the ranking query (index.ts 459-480) before ORDER BY: member
\* LEFT JOIN message ON m.id = msg.sender_id <msgFilterWithSystem>
\* WHERE m.name != <system> GROUP BY m.id HAVING messageCount > 0.
memberRows(t, onTail, params) ==
    LET count(k) == Cardinality({i \in DOMAIN t.message :
                        /\ t.message[i].sender_id = t.member[k].id
                        /\ Satisfies(onTail, params, t.message[i], t.member[k])})
    IN  {[memberId |-> t.member[k].id, platformId |-> t.member[k].platform_id,
          name |-> t.member[k].name, messageCount |-> count(k)] :
            k \in {j \in DOMAIN t.member :
                      t.member[j].name # SystemName /\ count(j) > 0}}

\* A variant that orders the rows by ascending count.
orderByCountAsc(rows) ==
    {s \in [1..Cardinality(rows) -> rows] :
        /\ \A i, j \in DOMAIN s : i # j => s[i] # s[j]
        /\ \A i, j \in DOMAIN s : i < j => s[i].messageCount <= s[j].messageCount}

\* ORDER BY messageCount DESC: every order of the rows that is descending
\* (SQL leaves the order of equal counts open).
orderByCountDesc(rows) ==
    {s \in [1..Cardinality(rows) -> rows] :
        /\ \A i, j \in DOMAIN s : i # j => s[i] # s[j]
        /\ \A i, j \in DOMAIN s : i < j => s[i].messageCount >= s[j].messageCount}

\* getMemberActivity (index.ts 435-492): the results it can return.
getMemberActivity(d, id, filter, leave) ==
    LET o == openDatabase(d, id, leave)
        t == d[id].tables
        call == [op |-> "getMemberActivity", id |-> id, arg |-> filter,
                 kind |-> "value", value |-> <<>>]
        tf == buildTimeFilter(filter)
        msgFilterBase == IF tf.clause # <<>> THEN replaceWhere(tf.clause) ELSE <<>>
        msgFilterWithSystem == msgFilterBase \o <<"AND", "notsys">>
        totalClauseWithSystem == buildSystemMessageFilter(tf.clause)
        total == totalMessages(t, tf.clause, tf.params)
        withPct(s) == [i \in DOMAIN s |->
            [memberId |-> s[i].memberId, platformId |-> s[i].platformId,
             name |-> s[i].name, messageCount |-> s[i].messageCount,
             percentage |-> percentage(s[i].messageCount, total)]]
        closed == closeHandle(o.dir, id)
    IN  IF o.threw THEN {[dir |-> o.dir, ret |-> [call EXCEPT !.kind = "throw"]]}
        ELSE IF ~o.db THEN {[dir |-> o.dir, ret |-> call]}
        ELSE IF ~WhereParses(totalClauseWithSystem) \/ ~OnParses(msgFilterWithSystem)
        THEN {[dir |-> closed, ret |-> [call EXCEPT !.kind = "throw"]]}
        ELSE {[dir |-> closed, ret |-> [call EXCEPT !.value = withPct(s)]] :
                 s \in orderByCountDesc(memberRows(t, msgFilterWithSystem, tf.params))}

\* A variant of the hourly query without the WHERE clause.
hourlyRowsAll(t, clauseWithSystem, params) ==
    LET hours == {hourOf(t.message[r[1]].ts) : r \in JoinRows(t)}
    IN  {[hour |-> h,
          messageCount |-> Cardinality({r \in JoinRows(t) :
                               hourOf(t.message[r[1]].ts) = h})] :
            h \in hours}

\* The rows of the hourly query (index.ts 505-518): GROUP BY hour.
hourlyRows(t, clauseWithSystem, params) ==
    LET matched == {r \in JoinRows(t) :
                       Satisfies(clauseWithSystem, params,
                                 t.message[r[1]], t.member[r[2]])}
        hours == {hourOf(t.message[r[1]].ts) : r \in matched}
    IN  {[hour |-> h,
          messageCount |-> Cardinality({r \in matched : hourOf(t.message[r[1]].ts) = h})] :
            h \in hours}

\* A variant that returns the rows of the query without filling the hours
\* that have none.
getHourlyActivityNoFill(d, id, filter, leave) ==
    LET o == openDatabase(d, id, leave)
        tf == buildTimeFilter(filter)
        rows == hourlyRows(d[id].tables, buildSystemMessageFilter(tf.clause), tf.params)
        hours == {r.hour : r \in rows}
        RECURSIVE asc(_)
        asc(hs) == IF hs = {} THEN <<>>
                   ELSE LET h == CHOOSE x \in hs : \A y \in hs : x <= y
                        IN  <<CHOOSE r \in rows : r.hour = h>> \o asc(hs \ {h})
    IN  [dir |-> IF o.db THEN closeHandle(o.dir, id) ELSE o.dir,
         ret |-> [op |-> "getHourlyActivity", id |-> id, arg |-> filter,
                  kind |-> IF o.threw THEN "throw" ELSE "value",
                  value |-> IF o.db THEN asc(hours) ELSE <<>>]]

\* getHourlyActivity (index.ts 497-534).
getHourlyActivity(d, id, filter, leave) ==
    LET o == openDatabase(d, id, leave)
        t == d[id].tables
        call == [op |-> "getHourlyActivity", id |-> id, arg |-> filter,
                 kind |-> "value", value |-> <<>>]
        tf == buildTimeFilter(filter)
        clauseWithSystem == buildSystemMessageFilter(tf.clause)
        rows == hourlyRows(t, clauseWithSystem, tf.params)
        found(h) == {r \in rows : r.hour = h}
        result == [i \in 1..24 |->
            [hour |-> i - 1,
             messageCount |-> IF found(i - 1) # {}
                              THEN (CHOOSE r \in found(i - 1) : TRUE).messageCount
                              ELSE 0]]
    IN  IF o.threw THEN [dir |-> o.dir, ret |-> [call EXCEPT !.kind = "throw"]]
        ELSE IF ~o.db THEN [dir |-> o.dir, ret |-> call]
        ELSE IF ~WhereParses(clauseWithSystem)
        THEN [dir |-> closeHandle(o.dir, id), ret |-> [call EXCEPT !.kind = "throw"]]
        ELSE [dir |-> closeHandle(o.dir, id), ret |-> [call EXCEPT !.value = result]]

\* The integers of a set in ascending order.
RECURSIVE sortAsc(_)
sortAsc(S) ==
    IF S = {} THEN <<>>
    ELSE LET x == CHOOSE y \in S : \A z \in S : y <= z
         IN  <<x>> \o sortAsc(S \ {x})

\* The rows of `message msg JOIN member m ON msg.sender_id = m.id <clause>`.
matchedRows(t, clause, params) ==
    {r \in JoinRows(t) : Satisfies(clause, params, t.message[r[1]], t.member[r[2]])}

\* A variant that takes the calendar date in UTC.
dateOfUtc(ts) == ts \div 86400

\* strftime('%Y-%m-%d', ts, 'unixepoch', 'localtime'): the date is the
\* number of its local day since 1970-01-01 (the strings of two dates
\* compare as their day numbers do).
dateOf(ts) == (ts + TzOffset) \div 86400

\* strftime('%Y', ts, 'unixepoch', 'localtime') cast to an integer, of a
\* timestamp of 1970 or 1971 (years of 365 days).
yearOf(ts) == 1970 + (dateOf(ts) \div 365)

\* getDailyActivity (index.ts 539-566): GROUP BY date ORDER BY date.
getDailyActivity(d, id, filter, leave) ==
    LET o == openDatabase(d, id, leave)
        t == d[id].tables
        call == [op |-> "getDailyActivity", id |-> id, arg |-> filter,
                 kind |-> "value", value |-> <<>>]
        tf == buildTimeFilter(filter)
        clauseWithSystem == buildSystemMessageFilter(tf.clause)
        matched == matchedRows(t, clauseWithSystem, tf.params)
        dates == sortAsc({dateOf(t.message[r[1]].ts) : r \in matched})
        rows == [i \in DOMAIN dates |->
            [date |-> dates[i],
             messageCount |-> Cardinality({r \in matched :
                                  dateOf(t.message[r[1]].ts) = dates[i]})]]
    IN  IF o.threw THEN [dir |-> o.dir, ret |-> [call EXCEPT !.kind = "throw"]]
        ELSE IF ~o.db THEN [dir |-> o.dir, ret |-> call]
        ELSE IF ~WhereParses(clauseWithSystem)
        THEN [dir |-> closeHandle(o.dir, id), ret |-> [call EXCEPT !.kind = "throw"]]
        ELSE [dir |-> closeHandle(o.dir, id), ret |-> [call EXCEPT !.value = rows]]

\* ORDER BY count DESC of the rows of the type query: every descending order.
orderByTypeCountDesc(rows) ==
    {s \in [1..Cardinality(rows) -> rows] :
        /\ \A i, j \in DOMAIN s : i # j => s[i] # s[j]
        /\ \A i, j \in DOMAIN s : i < j => s[i].count >= s[j].count}

\* getMessageTypeDistribution (index.ts 571-602): the results it can return.
getMessageTypeDistribution(d, id, filter, leave) ==
    LET o == openDatabase(d, id, leave)
        t == d[id].tables
        call == [op |-> "getMessageTypeDistribution", id |-> id, arg |-> filter,
                 kind |-> "value", value |-> <<>>]
        tf == buildTimeFilter(filter)
        clauseWithSystem == buildSystemMessageFilter(tf.clause)
        matched == matchedRows(t, clauseWithSystem, tf.params)
        rows == {[type |-> ty,
                  count |-> Cardinality({r \in matched : t.message[r[1]].type = ty})] :
                    ty \in {t.message[r[1]].type : r \in matched}}
        closed == closeHandle(o.dir, id)
    IN  IF o.threw THEN {[dir |-> o.dir, ret |-> [call EXCEPT !.kind = "throw"]]}
        ELSE IF ~o.db THEN {[dir |-> o.dir, ret |-> call]}
        ELSE IF ~WhereParses(clauseWithSystem)
        THEN {[dir |-> closed, ret |-> [call EXCEPT !.kind = "throw"]]}
        ELSE {[dir |-> closed, ret |-> [call EXCEPT !.value = s]] :
                 s \in orderByTypeCountDesc(rows)}

\* A variant that takes the range of the messages of the members other than
\* the system sentinel.
getTimeRangeNoSystem(d, id, leave) ==
    LET o == openDatabase(d, id, leave)
        t == d[id].tables
        null == [op |-> "getTimeRange", id |-> id, arg |-> 0, kind |-> "null", value |-> 0]
        ts == {t.message[r[1]].ts : r \in matchedRows(t, <<"WHERE", "notsys">>, <<>>)}
    IN  IF o.threw THEN [dir |-> o.dir, ret |-> [null EXCEPT !.kind = "throw"]]
        ELSE IF ~o.db THEN [dir |-> o.dir, ret |-> null]
        ELSE IF ts = {} THEN [dir |-> closeHandle(o.dir, id), ret |-> null]
        ELSE [dir |-> closeHandle(o.dir, id),
              ret |-> [null EXCEPT !.kind = "value",
                  !.value = [start |-> CHOOSE x \in ts : \A y \in ts : x <= y,
                             end |-> CHOOSE x \in ts : \A y \in ts : x >= y]]]

\* getTimeRange (index.ts 607-626): SELECT MIN(ts), MAX(ts) FROM message;
\* both are NULL of an empty table.
getTimeRange(d, id, leave) ==
    LET o == openDatabase(d, id, leave)
        t == d[id].tables
        null == [op |-> "getTimeRange", id |-> id, arg |-> 0, kind |-> "null", value |-> 0]
        ts == {t.message[i].ts : i \in DOMAIN t.message}
    IN  IF o.threw THEN [dir |-> o.dir, ret |-> [null EXCEPT !.kind = "throw"]]
        ELSE IF ~o.db THEN [dir |-> o.dir, ret |-> null]
        ELSE IF ts = {} THEN [dir |-> closeHandle(o.dir, id), ret |-> null]
        ELSE [dir |-> closeHandle(o.dir, id),
              ret |-> [null EXCEPT !.kind = "value",
                  !.value = [start |-> CHOOSE x \in ts : \A y \in ts : x <= y,
                             end |-> CHOOSE x \in ts : \A y \in ts : x >= y]]]

\* getAvailableYears (index.ts 411-430): SELECT DISTINCT year FROM message
\* ORDER BY year.
getAvailableYears(d, id, leave) ==
    LET o == openDatabase(d, id, leave)
        t == d[id].tables
        call == [op |-> "getAvailableYears", id |-> id, arg |-> 0,
                 kind |-> "value", value |-> <<>>]
    IN  IF o.threw THEN [dir |-> o.dir, ret |-> [call EXCEPT !.kind = "throw"]]
        ELSE IF ~o.db THEN [dir |-> o.dir, ret |-> call]
        ELSE [dir |-> closeHandle(o.dir, id),
              ret |-> [call EXCEPT
                  !.value = sortAsc({yearOf(t.message[i].ts) : i \in DOMAIN t.message})]]

GetDailyActivity(id, filter, leave) ==
    LET r == getDailyActivity(dir, id, filter, leave)
    IN  WithinHandles(r.dir) /\ dir' = r.dir /\ ret' = r.ret

GetMessageTypeDistribution(id, filter, leave) ==
    \E r \in getMessageTypeDistribution(dir, id, filter, leave) :
        WithinHandles(r.dir) /\ dir' = r.dir /\ ret' = r.ret

GetTimeRange(id, leave) ==
    LET r == getTimeRange(dir, id, leave)
    IN  WithinHandles(r.dir) /\ dir' = r.dir /\ ret' = r.ret

GetAvailableYears(id, leave) ==
    LET r == getAvailableYears(dir, id, leave)
    IN  WithinHandles(r.dir) /\ dir' = r.dir /\ ret' = r.ret

GetMemberActivity(id, filter, leave) ==
    \E r \in getMemberActivity(dir, id, filter, leave) :
        WithinHandles(r.dir) /\ dir' = r.dir /\ ret' = r.ret

GetHourlyActivity(id, filter, leave) ==
    LET r == getHourlyActivity(dir, id, filter, leave)
    IN  WithinHandles(r.dir) /\ dir' = r.dir /\ ret' = r.ret

(***************************************************************************)
(* The catalog with several datasets.                                      *)
(***************************************************************************)
Init ==
    /\ dir = [id \in Ids |-> NoFile]
    /\ ret = [op |-> "none", id |-> NoId, arg |-> 0, kind |-> "value", value |-> 0]

Next ==
    \/ \E pr \in SampleResults, now \in Times, rnd \in Rands, fault \in Faults :
           ImportData(pr, now, rnd, fault)
    \/ GetAllSessions
    \/ \E id \in Ids, leave \in BOOLEAN : GetSession(id, leave)
    \/ \E id \in Ids, fail \in {"none", "db", "wal", "shm"} : DeleteSession(id, fail)

Spec == Init /\ [][Next]_vars

(***************************************************************************)
(* The catalog with files in the directory that are not datasets.          *)
(***************************************************************************)
\* The environment puts a file <id>.db that is not a dataset in the
\* directory, or damages the dataset of the id: the "database file that
\* cannot be read" the catch of getAllSessions is for.
Damage(id, kind) ==
    /\ dir' = [dir EXCEPT ![id].exists = TRUE, ![id].tables = EmptyTables,
                          ![id].readable = kind]
    /\ ret' = [op |-> "damage", id |-> id, arg |-> kind, kind |-> "value", value |-> 0]

ScanNext ==
    \/ Next
    \/ \E id \in Ids, kind \in {"noopen", "noread"} : Damage(id, kind)

ScanSpec == Init /\ [][ScanNext]_vars

(***************************************************************************)
(* One dataset file and every generated ParseResult: the importer.         *)
(***************************************************************************)
FirstNow == CHOOSE t \in Times : \A u \in Times : t <= u

ImportNext ==
    \/ \E pr \in ParseResults, fault \in {0, 1} : ImportData(pr, FirstNow, 0, fault)
    \/ \E id \in Ids, fail \in {"none", "db"} : DeleteSession(id, fail)

ImportSpec == Init /\ [][ImportNext]_vars

(***************************************************************************)
(* One dataset file, the scenario's dataset and small ones beside it, and  *)
(* the catalog and analytics queries on it.                                *)
(***************************************************************************)
QueryInputs ==
    SampleResults \cup {ScenarioResult, TwoDayResult}
    \cup [meta : {[name |-> "g"]},
          members : {<<[platformId |-> "p1", name |-> "A"],
                       [platformId |-> "p2", name |-> SystemName]>>},
          messages : SeqUpTo([senderPlatformId : PlatformIds, timestamp : Timestamps,
                              type : {0}], MaxMessages)]

QueryNext ==
    \/ \E pr \in QueryInputs, fault \in {0, 1} : ImportData(pr, FirstNow, 0, fault)
    \/ GetAllSessions
    \/ \E id \in Ids, leave \in BOOLEAN : GetSession(id, leave)
    \/ \E id \in Ids, fail \in {"none", "db", "wal", "shm"} : DeleteSession(id, fail)
    \/ \E id \in Ids, filter \in TimeFilters, leave \in BOOLEAN :
           GetMemberActivity(id, filter, leave)
    \/ \E id \in Ids, filter \in TimeFilters, leave \in BOOLEAN :
           GetHourlyActivity(id, filter, leave)
    \/ \E id \in Ids, filter \in TimeFilters, leave \in BOOLEAN :
           GetDailyActivity(id, filter, leave)
    \/ \E id \in Ids, filter \in TimeFilters, leave \in BOOLEAN :
           GetMessageTypeDistribution(id, filter, leave)
    \/ \E id \in Ids, leave \in BOOLEAN : GetTimeRange(id, leave)
    \/ \E id \in Ids, leave \in BOOLEAN : GetAvailableYears(id, leave)

QuerySpec == Init /\ [][QueryNext]_vars

(***************************************************************************)
(* The parser registry.  The registry is not part of the sources at hand   *)
(* (the ChatParser interface is); it is modelled as the specification      *)
(* describes it: the parsers are tried in the order of their registration  *)
(* and the first whose detect returns true is selected.                    *)
(***************************************************************************)
Contents == {"json", "text"}
Filenames == {"chat.json", "chat.txt"}

\* What the detect of a parser accepts: nothing, everything, the JSON
\* contents, the .txt file names.
DetectSets ==
    {{}, Contents \X Filenames, {"json"} \X Filenames, Contents \X {"chat.txt"}}

\* A registry: its parsers in the order of registration, each given by what
\* its detect accepts.
Registries == SeqUpTo(DetectSets, MaxParsers)

\* ChatParser.detect(content, filename)
detect(parser, content, filename) == <<content, filename>> \in parser

\* A variant that tries every parser and selects the last that matches.
RECURSIVE selectParserLast(_, _, _, _, _)
selectParserLast(parsers, content, filename, i, calls) ==
    LET all == [k \in DOMAIN parsers |-> k]
        matching == {k \in DOMAIN parsers : detect(parsers[k], content, filename)}
    IN  IF matching = {}
        THEN [kind |-> "throw", parser |-> 0, calls |-> all, error |-> "NoMatchingFormat"]
        ELSE [kind |-> "value",
              parser |-> CHOOSE k \in matching : \A m \in matching : m <= k,
              calls |-> all, error |-> ""]

\* The selection from the parser at position i on; `calls` lists the
\* positions of the parsers whose detect was called.
RECURSIVE selectParser(_, _, _, _, _)
selectParser(parsers, content, filename, i, calls) ==
    IF i > Len(parsers)
    THEN [kind |-> "throw", parser |-> 0, calls |-> calls, error |-> "NoMatchingFormat"]
    ELSE IF detect(parsers[i], content, filename)
    THEN [kind |-> "value", parser |-> i, calls |-> Append(calls, i), error |-> ""]
    ELSE selectParser(parsers, content, filename, i + 1, Append(calls, i))

SelectParser(parsers, content, filename) ==
    LET r == selectParser(parsers, content, filename, 1, <<>>)
    IN  /\ ret' = [op |-> "selectParser", id |-> NoId,
                   arg |-> [parsers |-> parsers, content |-> content,
                            filename |-> filename],
                   kind |-> r.kind,
                   value |-> [parser |-> r.parser, calls |-> r.calls, error |-> r.error]]
        /\ UNCHANGED dir

ParserNext ==
    \E parsers \in Registries, content \in Contents, filename \in Filenames :
        SelectParser(parsers, content, filename)

ParserSpec == Init /\ [][ParserNext]_vars

(***************************************************************************)
(* What a caller of the catalog sees.                                      *)
(***************************************************************************)
\* The set of sessions listSessions returns.
Listing(d) ==
    LET l == getAllSessions(d).ret.value IN {l[i] : i \in DOMAIN l}

\* getSession(id) returns a session.
Found(d, id) == getSession(d, id, FALSE).ret.kind = "value"

Visible(d, id) == Found(d, id) \/ \E s \in Listing(d) : s.id = id

(***************************************************************************)
(* C1.  An importData call that fails inside its transaction is rolled     *)
(* back and its session id is not visible afterwards: listSessions returns *)
(* the sessions it returned before the call, and getSession of the         *)
(* allocated id returns not-found.                                         *)
(***************************************************************************)
C1_FailedImportInvisible ==
    [][(ret'.op = "importData" /\ ret'.kind = "throw") =>
          /\ Listing(dir') = Listing(dir)
          /\ ~Found(dir', ret'.id)]_vars

\* What holds of a failed import whatever id it allocated: every table is as
\* it was, and so is every answer of the catalog.
C1_FailedImportRolledBack ==
    [][(ret'.op = "importData" /\ ret'.kind = "throw") =>
          /\ \A id \in Ids : dir'[id].tables = dir[id].tables
          /\ Listing(dir') = Listing(dir)
          /\ \A id \in Ids : Found(dir', id) <=> Found(dir, id)]_vars

(***************************************************************************)
(* C2.  A successful importData call returns a session id that no dataset  *)
(* of the directory has, and leaves the tables of every dataset that was   *)
(* there before as they were.                                              *)
(***************************************************************************)
C2_FreshIndependentSession ==
    [][(ret'.op = "importData" /\ ret'.kind = "value") =>
          \A id \in Ids :
              dir[id].exists => /\ id # ret'.id
                                /\ dir'[id].tables = dir[id].tables]_vars

(***************************************************************************)
(* C6.  After deleteSession(id) on an existing session the session is not  *)
(* listed and not found, and stays so until an import allocates the id.    *)
(***************************************************************************)
\* Once not visible, an id stays so through every call but an import of it.
StaysHidden(id) ==
    (~Visible(dir, id) /\ ~(ret'.op = "importData" /\ ret'.id = id))
        => ~Visible(dir', id)

\* The claim as stated: of every deleteSession call on an existing session.
C6_DeleteHidesSession ==
    [][\A id \in Ids :
          /\ (ret'.op = "deleteSession" /\ ret'.id = id /\ Visible(dir, id))
                 => ~Visible(dir', id)
          /\ StaysHidden(id)]_vars

\* The claim of the deleteSession calls that return true.
C6_SuccessfulDeleteHidesSession ==
    [][\A id \in Ids :
          /\ (ret'.op = "deleteSession" /\ ret'.id = id /\ ret'.value)
                 => ~Visible(dir', id)
          /\ StaysHidden(id)]_vars

\* deleteSession returned true for a session that existed, while another
\* session is still listed.
C6_Witness ==
    /\ ret.op = "deleteSession"
    /\ ret.value
    /\ ret.arg.existed
    /\ ~Visible(dir, ret.id)
    /\ Listing(dir) # {}

(***************************************************************************)
(* C7.  deleteSession never raises; when it returns true none of <id>.db,  *)
(* <id>.db-wal and <id>.db-shm exists; when the removal of one of them     *)
(* fails it returns false.                                                 *)
(***************************************************************************)
\* The unlink named by the call's `fail` was made and threw: the artifact is
\* still there.
UnlinkFailed(d, call) ==
    \/ call.arg.fail = "db" /\ d[call.id].exists
    \/ call.arg.fail = "wal" /\ d[call.id].wal
    \/ call.arg.fail = "shm" /\ d[call.id].shm

C7_DeleteReturnsOutcome ==
    ret.op = "deleteSession" =>
        /\ ret.kind = "value"
        /\ ret.value \in BOOLEAN
        /\ ret.value => (~dir[ret.id].exists /\ ~dir[ret.id].wal /\ ~dir[ret.id].shm)
        /\ UnlinkFailed(dir, ret) => ~ret.value

\* The removal of the -wal artifact failed after <id>.db of an existing
\* session was removed: deleteSession returned false.
C7_Witness ==
    /\ ret.op = "deleteSession"
    /\ ret.arg.fail = "wal"
    /\ ret.arg.existed
    /\ ~dir[ret.id].exists
    /\ dir[ret.id].wal
    /\ ~ret.value

(***************************************************************************)
(* What is stored, read off the tables directly.                           *)
(***************************************************************************)
\* The input messages of a ParseResult whose sender is in its member list.
Resolvable(pr) ==
    {j \in DOMAIN pr.messages :
        \E i \in DOMAIN pr.members :
            pr.members[i].platformId = pr.messages[j].senderPlatformId}

\* The member rows a message row's sender id names.
SenderRows(t, msg) == {k \in DOMAIN t.member : t.member[k].id = msg.sender_id}

\* The time filter accepts the timestamp (both bounds inclusive).
InRange(filter, ts) ==
    /\ filter.startTs = Undefined \/ ts >= filter.startTs
    /\ filter.endTs = Undefined \/ ts <= filter.endTs

\* The stored messages the filter accepts whose sender is not the system
\* sentinel.
Counted(t, filter) ==
    {i \in DOMAIN t.message :
        /\ InRange(filter, t.message[i].ts)
        /\ \E k \in SenderRows(t, t.message[i]) : t.member[k].name # SystemName}

RECURSIVE SumCounts(_)
SumCounts(s) == IF s = <<>> THEN 0 ELSE Head(s).messageCount + SumCounts(Tail(s))

C3_AddsResolvableMessages ==
    [][(ret'.op = "importData" /\ ret'.kind = "value") =>
          Len(dir'[ret'.id].tables.message)
              = Len(dir[ret'.id].tables.message) + Cardinality(Resolvable(ret'.arg))]_vars

(***************************************************************************)
(* C4.  In every dataset visible to the catalog, the sender id of every    *)
(* stored message is the id of a member stored in the same dataset.        *)
(***************************************************************************)
C4_SenderIsMember ==
    \A id \in Ids :
        Visible(dir, id) =>
            \A i \in DOMAIN dir[id].tables.message :
                SenderRows(dir[id].tables, dir[id].tables.message[i]) # {}

\* A successful import of messages of a resolvable and of an unresolvable
\* sender, which stored a message.
C4_Witness ==
    /\ ret.op = "importData"
    /\ ret.kind = "value"
    /\ Visible(dir, ret.id)
    /\ Resolvable(ret.arg) # {}
    /\ Resolvable(ret.arg) # DOMAIN ret.arg.messages
    /\ Len(dir[ret.id].tables.message) >= 1

(***************************************************************************)
(* C5.  After a successful import the dataset stores, for every platform   *)
(* id of the ParseResult's member list, exactly one member, under one      *)
(* surrogate id, and its name is the name of the id's last occurrence in   *)
(* the list.                                                               *)
(***************************************************************************)
C5_OneMemberPerPlatformId ==
    (ret.op = "importData" /\ ret.kind = "value") =>
        LET members == ret.arg.members
            t == dir[ret.id].tables
        IN  /\ \A i \in DOMAIN members :
                   LET rows == {k \in DOMAIN t.member :
                                   t.member[k].platform_id = members[i].platformId}
                       last == CHOOSE j \in DOMAIN members :
                                   /\ members[j].platformId = members[i].platformId
                                   /\ \A l \in DOMAIN members :
                                          members[l].platformId = members[i].platformId
                                              => l <= j
                   IN  /\ Cardinality(rows) = 1
                       /\ \A k \in rows : t.member[k].name = members[last].name
            /\ \A k1, k2 \in DOMAIN t.member :
                   t.member[k1].id = t.member[k2].id => k1 = k2

\* A successful import whose member list names one platform id twice, under
\* two names: the stored name is the second.
C5_Witness ==
    /\ ret.op = "importData"
    /\ ret.kind = "value"
    /\ Len(ret.arg.members) = 2
    /\ ret.arg.members[1].platformId = ret.arg.members[2].platformId
    /\ ret.arg.members[1].name # ret.arg.members[2].name
    /\ \E k \in DOMAIN dir[ret.id].tables.member :
           /\ dir[ret.id].tables.member[k].platform_id = ret.arg.members[2].platformId
           /\ dir[ret.id].tables.member[k].name = ret.arg.members[2].name

(***************************************************************************)
(* C8.  hourlyActivity returns 24 entries, of the hours 0, 1, ..., 23 in   *)
(* that order, with the count 0 for an hour no counted message falls in.   *)
(***************************************************************************)
TwentyFourHours(call, t) ==
    /\ call.kind = "value"
    /\ Len(call.value) = 24
    /\ \A i \in 1..24 :
           /\ call.value[i].hour = i - 1
           /\ ({m \in Counted(t, call.arg) : hourOf(t.message[m].ts) = i - 1} = {})
                  => call.value[i].messageCount = 0

\* The claim as stated: of every call, for any session id.
C8_AlwaysTwentyFourHours ==
    ret.op = "getHourlyActivity" => TwentyFourHours(ret, dir[ret.id].tables)

\* The claim of the session ids that have a dataset; for the others the
\* result is the empty list.
C8_TwentyFourHoursOfDataset ==
    ret.op = "getHourlyActivity" =>
        IF dir[ret.id].exists
        THEN TwentyFourHours(ret, dir[ret.id].tables)
        ELSE ret.kind = "value" /\ ret.value = <<>>

\* A call on a dataset that stores messages, none of them in the range of
\* the filter: 24 entries, all 0.
C8_Witness ==
    /\ ret.op = "getHourlyActivity"
    /\ dir[ret.id].exists
    /\ Len(dir[ret.id].tables.message) > 0
    /\ Counted(dir[ret.id].tables, ret.arg) = {}
    /\ Len(ret.value) = 24
    /\ \A i \in 1..24 : ret.value[i].messageCount = 0

(***************************************************************************)
(* C9.  The message counts of the entries memberActivity returns add up to *)
(* the number of stored messages the filter accepts whose sender is not    *)
(* the system sentinel, which is the total the percentages are taken of.   *)
(***************************************************************************)
C9_MemberCountsSumToTotal ==
    (ret.op = "getMemberActivity" /\ ret.kind = "value") =>
        LET t == dir[ret.id].tables
            tf == buildTimeFilter(ret.arg)
        IN  /\ SumCounts(ret.value) = Cardinality(Counted(t, ret.arg))
            /\ totalMessages(t, tf.clause, tf.params) = Cardinality(Counted(t, ret.arg))

\* A ranking of two members under a filter that leaves stored messages out,
\* on a dataset that stores messages of the system sentinel.
C9_Witness ==
    /\ ret.op = "getMemberActivity"
    /\ ret.arg.startTs # Undefined
    /\ Len(ret.value) = 2
    /\ SumCounts(ret.value) < Len(dir[ret.id].tables.message)
    /\ \E i \in DOMAIN dir[ret.id].tables.message :
           /\ InRange(ret.arg, dir[ret.id].tables.message[i].ts)
           /\ i \notin Counted(dir[ret.id].tables, ret.arg)

(***************************************************************************)
(* C10.  The percentage of every memberActivity entry is its message count *)
(* over the total under the same filter, times 100, rounded to two         *)
(* decimals (halves up); in the scenario's dataset (A 7, B 2, system 5) A  *)
(* has 77.78 and B 22.22.  Percentages are in hundredths.                  *)
(***************************************************************************)
\* p = round(count / total * 10000): p - 1/2 <= count / total * 10000 < p + 1/2.
IsRounded(p, count, total) ==
    /\ (2 * p - 1) * total <= 20000 * count
    /\ 20000 * count < (2 * p + 1) * total

IsScenario(t) == Len(t.meta) = 1 /\ t.meta[1].name = "scenario"

NoFilter == [startTs |-> Undefined, endTs |-> Undefined]

C10_PercentageRounded ==
    (ret.op = "getMemberActivity" /\ ret.kind = "value") =>
        LET t == dir[ret.id].tables
            total == Cardinality(Counted(t, ret.arg))
        IN  /\ \A i \in DOMAIN ret.value :
                   /\ total > 0
                   /\ IsRounded(ret.value[i].percentage, ret.value[i].messageCount, total)
            /\ (IsScenario(t) /\ ret.arg = NoFilter) =>
                   /\ Len(ret.value) = 2
                   /\ ret.value[1].name = "A"
                   /\ ret.value[1].messageCount = 7
                   /\ ret.value[1].percentage = 7778
                   /\ ret.value[2].name = "B"
                   /\ ret.value[2].messageCount = 2
                   /\ ret.value[2].percentage = 2222

\* The ranking of the scenario's dataset without a filter.
C10_Witness ==
    /\ ret.op = "getMemberActivity"
    /\ IsScenario(dir[ret.id].tables)
    /\ ret.arg = NoFilter
    /\ Len(ret.value) = 2
    /\ ret.value[1].percentage = 7778
    /\ ret.value[2].percentage = 2222

(***************************************************************************)
(* C11.  memberActivity returns one entry for exactly each member other    *)
(* than the system sentinel that sent a message the filter accepts: no     *)
(* entry of the sentinel, none with the count 0, no member twice, the      *)
(* counts in non-increasing order, and no entry when no message of such a  *)
(* member is accepted.                                                     *)
(***************************************************************************)
\* The member rows, other than the sentinel's, that sent a counted message.
ActiveMembers(t, filter) ==
    {k \in DOMAIN t.member :
        /\ t.member[k].name # SystemName
        /\ \E i \in Counted(t, filter) : k \in SenderRows(t, t.message[i])}

C11_OneEntryPerActiveMember ==
    (ret.op = "getMemberActivity" /\ ret.kind = "value") =>
        LET t == dir[ret.id].tables
            active == ActiveMembers(t, ret.arg)
        IN  /\ {ret.value[i].memberId : i \in DOMAIN ret.value}
                   = {t.member[k].id : k \in active}
            /\ Len(ret.value) = Cardinality(active)
            /\ \A i \in DOMAIN ret.value :
                   /\ ret.value[i].name # SystemName
                   /\ ret.value[i].messageCount >= 1
            /\ \A i, j \in DOMAIN ret.value :
                   i < j => ret.value[i].messageCount >= ret.value[j].messageCount
            /\ (Counted(t, ret.arg) = {}) => ret.value = <<>>

\* A ranking of two members of different counts under a filter with a bound,
\* on a dataset with a third member whose messages the filter rejects and
\* with a message of the sentinel that the filter accepts.
C11_Witness ==
    /\ ret.op = "getMemberActivity"
    /\ ret.arg # NoFilter
    /\ Len(ret.value) = 2
    /\ ret.value[1].messageCount > ret.value[2].messageCount
    /\ LET t == dir[ret.id].tables
       IN  /\ \E k \in DOMAIN t.member :
                  /\ t.member[k].name # SystemName
                  /\ k \notin ActiveMembers(t, ret.arg)
                  /\ \E i \in DOMAIN t.message : k \in SenderRows(t, t.message[i])
           /\ \E i \in DOMAIN t.message :
                  /\ InRange(ret.arg, t.message[i].ts)
                  /\ i \notin Counted(t, ret.arg)

(***************************************************************************)
(* C12.  dailyActivity has one entry for exactly each local calendar date  *)
(* on which a message was sent that the filter accepts and whose sender is *)
(* not the system sentinel; every entry has a count of 1 or more, and the  *)
(* dates are strictly ascending.                                           *)
(***************************************************************************)
\* The local calendar day of a timestamp, counted from 1970-01-01.
LocalDate(ts) == (ts + TzOffset) \div 86400

C12_OneEntryPerLocalDate ==
    (ret.op = "getDailyActivity" /\ ret.kind = "value") =>
        LET t == dir[ret.id].tables
            dates == {LocalDate(t.message[i].ts) : i \in Counted(t, ret.arg)}
        IN  /\ {ret.value[i].date : i \in DOMAIN ret.value} = dates
            /\ Len(ret.value) = Cardinality(dates)
            /\ \A i \in DOMAIN ret.value : ret.value[i].messageCount >= 1
            /\ \A i, j \in DOMAIN ret.value :
                   i < j => ret.value[i].date < ret.value[j].date

\* Two dates under a filter with a bound; a counted message of the second
\* was sent on the first date in UTC, and a date of a stored message has no
\* entry.
C12_Witness ==
    /\ ret.op = "getDailyActivity"
    /\ ret.arg # NoFilter
    /\ Len(ret.value) = 2
    /\ LET t == dir[ret.id].tables
       IN  /\ \E i \in Counted(t, ret.arg) :
                  /\ LocalDate(t.message[i].ts) = ret.value[2].date
                  /\ t.message[i].ts \div 86400 = ret.value[1].date
           /\ \E i \in DOMAIN t.message : ~InRange(ret.arg, t.message[i].ts)

(***************************************************************************)
(* C13.  timeRange returns the least and the greatest timestamp of all the *)
(* stored messages of the session, those of the system sentinel included   *)
(* (it takes no filter), and null exactly when no message is stored.       *)
(***************************************************************************)
C13_TimeRangeOfAllMessages ==
    ret.op = "getTimeRange" =>
        LET t == dir[ret.id].tables
            ts == {t.message[i].ts : i \in DOMAIN t.message}
        IN  /\ ret.kind \in {"null", "value"}
            /\ ret.kind = "null" <=> ts = {}
            /\ ret.kind = "value" =>
                   /\ ret.value.start \in ts
                   /\ ret.value.end \in ts
                   /\ \A x \in ts : ret.value.start <= x /\ x <= ret.value.end

\* The range of a dataset whose earliest message is one of the sentinel: it
\* starts before every message of another member.
C13_Witness ==
    /\ ret.op = "getTimeRange"
    /\ ret.kind = "value"
    /\ LET t == dir[ret.id].tables
       IN  /\ Counted(t, NoFilter) # {}
           /\ \A i \in Counted(t, NoFilter) : ret.value.start < t.message[i].ts

(***************************************************************************)
(* C14.  The messageCount getSession and listSessions report of a session  *)
(* is the number of its stored messages whose sender is not the system     *)
(* sentinel, its memberCount the number of its stored members other than   *)
(* the sentinel, and the two operations report the same counts.            *)
(***************************************************************************)
CountsExcludeSentinel(session, t) ==
    /\ session.messageCount = Cardinality(Counted(t, NoFilter))
    /\ session.memberCount
           = Cardinality({k \in DOMAIN t.member : t.member[k].name # SystemName})

C14_CountsExcludeSentinel ==
    /\ (ret.op = "getSession" /\ ret.kind = "value") =>
           /\ CountsExcludeSentinel(ret.value, dir[ret.id].tables)
           /\ \E s \in Listing(dir) :
                  /\ s.id = ret.id
                  /\ s.messageCount = ret.value.messageCount
                  /\ s.memberCount = ret.value.memberCount
    /\ (ret.op = "getAllSessions" /\ ret.kind = "value") =>
           \A i \in DOMAIN ret.value :
               LET s == ret.value[i]
                   g == getSession(dir, s.id, FALSE).ret
               IN  /\ CountsExcludeSentinel(s, dir[s.id].tables)
                   /\ g.kind = "value"
                   /\ g.value.messageCount = s.messageCount
                   /\ g.value.memberCount = s.memberCount

\* A listing of two sessions, one of which stores a message of the sentinel
\* beside a message of another member.
C14_Witness ==
    /\ ret.op = "getAllSessions"
    /\ Len(ret.value) = 2
    /\ \E i \in DOMAIN ret.value :
           LET t == dir[ret.value[i].id].tables
           IN  /\ ret.value[i].messageCount >= 1
               /\ ret.value[i].messageCount < Len(t.message)
               /\ ret.value[i].memberCount < Len(t.member)

(***************************************************************************)
(* C15.  listSessions does not fail when a file of the directory cannot be *)
(* opened or read: it returns exactly the sessions of the datasets that    *)
(* can.                                                                    *)
(***************************************************************************)
\* The ids of the datasets that can be read and hold a session.
ReadableSessions(d) ==
    {id \in Ids : d[id].exists /\ d[id].readable = "yes" /\ Len(d[id].tables.meta) > 0}

C15_ListingSkipsUnreadable ==
    ret.op = "getAllSessions" =>
        /\ ret.kind = "value"
        /\ {ret.value[i].id : i \in DOMAIN ret.value} = ReadableSessions(dir)
        /\ Len(ret.value) = Cardinality(ReadableSessions(dir))
        /\ \A i \in DOMAIN ret.value :
               LET t == dir[ret.value[i].id].tables
               IN  /\ ret.value[i].name = t.meta[1].name
                   /\ ret.value[i].importedAt = t.meta[1].imported_at
                   /\ CountsExcludeSentinel(ret.value[i], t)

\* A listing of the one session of a directory whose other file cannot be
\* read.
C15_Witness ==
    /\ ret.op = "getAllSessions"
    /\ ret.kind = "value"
    /\ Len(ret.value) = 1
    /\ \E id \in Ids : dir[id].exists /\ dir[id].readable # "yes"

(***************************************************************************)
(* C16.  A query on a session id that has no dataset (never imported, or   *)
(* deleted) does not raise: getSession and timeRange return null,          *)
(* memberActivity, dailyActivity, messageTypeDistribution and              *)
(* availableYears an empty result.                                         *)
(***************************************************************************)
C16_MissingDatasetNotFound ==
    (ret.id \in Ids /\ ~dir[ret.id].exists) =>
        /\ ret.op \in {"getSession", "getTimeRange"} => ret.kind = "null"
        /\ ret.op \in {"getMemberActivity", "getDailyActivity",
                        "getMessageTypeDistribution", "getAvailableYears"}
               => (ret.kind = "value" /\ ret.value = <<>>)

\* A query on the id of a deleted dataset, of which the -wal artifact is
\* left.
C16_Witness ==
    /\ ret.op = "getDailyActivity"
    /\ ~dir[ret.id].exists
    /\ dir[ret.id].wal
    /\ ret.kind = "value"
    /\ ret.value = <<>>

(***************************************************************************)
(* C17.  Whatever calls an import is interleaved with (the calls are       *)
(* synchronous: one runs to its end before the next starts), a reader of   *)
(* the id the import allocated sees the session as absent (not listed, not *)
(* found, empty results) or sees the whole committed dataset (the meta     *)
(* row, every member, every message of a resolvable sender): never a part  *)
(* of the import's rows, and no read fails.                                *)
(***************************************************************************)
\* What the readers return of an id, without a filter.
ReaderView(d, id) ==
    [session |-> getSession(d, id, FALSE).ret,
     listed |-> {s \in Listing(d) : s.id = id},
     members |-> {r.ret : r \in getMemberActivity(d, id, NoFilter, FALSE)},
     hourly |-> getHourlyActivity(d, id, NoFilter, FALSE).ret,
     daily |-> getDailyActivity(d, id, NoFilter, FALSE).ret,
     types |-> {r.ret : r \in getMessageTypeDistribution(d, id, NoFilter, FALSE)},
     range |-> getTimeRange(d, id, FALSE).ret,
     years |-> getAvailableYears(d, id, FALSE).ret]

\* No read of the view failed.
NoReadFails(v) ==
    /\ v.session.kind # "throw"
    /\ \A r \in v.members : r.kind # "throw"
    /\ v.hourly.kind # "throw"
    /\ v.daily.kind # "throw"
    /\ \A r \in v.types : r.kind # "throw"
    /\ v.range.kind # "throw"
    /\ v.years.kind # "throw"

\* The readers see no session of the id: not found, not listed, no entry in
\* any result (hourlyActivity: no entry, or its 24 entries with the count 0).
SeenAbsent(v) ==
    /\ NoReadFails(v)
    /\ v.session.kind = "null"
    /\ v.listed = {}
    /\ \A r \in v.members : r.value = <<>>
    /\ \A i \in DOMAIN v.hourly.value : v.hourly.value[i].messageCount = 0
    /\ v.daily.value = <<>>
    /\ \A r \in v.types : r.value = <<>>
    /\ v.range.kind = "null"
    /\ v.years.value = <<>>

\* The tables t1 hold every row of the import of pr into the tables t0: its
\* meta row, a member of every platform id of its list, and after the rows
\* of t0 its messages of resolvable senders, in their order.
HoldsImport(t0, t1, pr) ==
    LET res == SelectSeq(pr.messages,
                   LAMBDA m : \E i \in DOMAIN pr.members :
                                 pr.members[i].platformId = m.senderPlatformId)
    IN  /\ Len(t1.meta) = Len(t0.meta) + 1
        /\ t1.meta[Len(t1.meta)].name = pr.meta.name
        /\ \A i \in DOMAIN pr.members :
               \E k \in DOMAIN t1.member :
                   t1.member[k].platform_id = pr.members[i].platformId
        /\ Len(t1.message) = Len(t0.message) + Len(res)
        /\ \A i \in DOMAIN t0.message : t1.message[i] = t0.message[i]
        /\ \A n \in DOMAIN res :
               LET row == t1.message[Len(t0.message) + n]
               IN  /\ row.ts = res[n].timestamp
                   /\ row.type = res[n].type
                   /\ \E k \in SenderRows(t1, row) :
                          t1.member[k].platform_id = res[n].senderPlatformId

C17_ReadersSeeAllOrNothing ==
    [][ret'.op = "importData" =>
          LET id == ret'.id
              before == ReaderView(dir, id)
              after == ReaderView(dir', id)
          IN  /\ NoReadFails(after)
              /\ IF ret'.kind = "throw"
                 THEN SeenAbsent(after) \/ after = before
                 ELSE /\ after.session.kind = "value"
                      /\ after.listed # {}
                      /\ HoldsImport(dir[id].tables, dir'[id].tables, ret'.arg)]_vars

\* An import of members and messages failed and left the file of its id:
\* the readers see no session of it.
C17_Witness ==
    /\ ret.op = "importData"
    /\ ret.kind = "throw"
    /\ Len(ret.arg.members) >= 1
    /\ Len(ret.arg.messages) >= 1
    /\ dir[ret.id].exists
    /\ SeenAbsent(ReaderView(dir, ret.id))
    /\ \E id \in Ids : Visible(dir, id)

(***************************************************************************)
(* C18.  Parser selection picks the parser of the lowest registration      *)
(* position whose detect returns true, calls the detect of no later        *)
(* parser, and fails with NoMatchingFormat exactly when the detect of no   *)
(* registered parser returns true.                                         *)
(***************************************************************************)
C18_FirstMatchingParser ==
    ret.op = "selectParser" =>
        LET parsers == ret.arg.parsers
            matching == {k \in DOMAIN parsers :
                            <<ret.arg.content, ret.arg.filename>> \in parsers[k]}
        IN  /\ ret.kind = "throw" <=> matching = {}
            /\ ret.kind = "throw" => ret.value.error = "NoMatchingFormat"
            /\ ret.kind = "value" =>
                   /\ ret.value.parser \in matching
                   /\ \A k \in matching : ret.value.parser <= k
                   /\ \A n \in DOMAIN ret.value.calls :
                          ret.value.calls[n] <= ret.value.parser

\* Of three parsers the first does not match and the other two do: the
\* second is selected and the third is not asked.
C18_Witness ==
    /\ ret.op = "selectParser"
    /\ Len(ret.arg.parsers) = 3
    /\ <<ret.arg.content, ret.arg.filename>> \notin ret.arg.parsers[1]
    /\ <<ret.arg.content, ret.arg.filename>> \in ret.arg.parsers[2]
    /\ <<ret.arg.content, ret.arg.filename>> \in ret.arg.parsers[3]
    /\ ret.value.parser = 2
    /\ ret.value.calls = <<1, 2>>

(***************************************************************************)
(* C19.  Under a filter with no bound, with startTs only, with endTs only  *)
(* or with both, memberActivity, hourlyActivity, dailyActivity and         *)
(* messageTypeDistribution count exactly the stored messages whose sender  *)
(* is not the system sentinel and whose timestamp is startTs or later      *)
(* (when given) and endTs or earlier (when given).                         *)
(***************************************************************************)
RECURSIVE SumTypeCounts(_)
SumTypeCounts(s) == IF s = <<>> THEN 0 ELSE Head(s).count + SumTypeCounts(Tail(s))

C19_CountsFilteredMessages ==
    LET t == dir[ret.id].tables
        counted == Counted(t, ret.arg)
    IN  /\ ret.op = "getMemberActivity" =>
               /\ ret.kind = "value"
               /\ SumCounts(ret.value) = Cardinality(counted)
               /\ \A n \in DOMAIN ret.value :
                      ret.value[n].messageCount
                          = Cardinality({i \in counted :
                                t.message[i].sender_id = ret.value[n].memberId})
        /\ ret.op = "getHourlyActivity" =>
               /\ ret.kind = "value"
               /\ dir[ret.id].exists => SumCounts(ret.value) = Cardinality(counted)
               /\ \A n \in DOMAIN ret.value :
                      ret.value[n].messageCount
                          = Cardinality({i \in counted :
                                hourOf(t.message[i].ts) = ret.value[n].hour})
        /\ ret.op = "getDailyActivity" =>
               /\ ret.kind = "value"
               /\ SumCounts(ret.value) = Cardinality(counted)
               /\ \A n \in DOMAIN ret.value :
                      ret.value[n].messageCount
                          = Cardinality({i \in counted :
                                LocalDate(t.message[i].ts) = ret.value[n].date})
        /\ ret.op = "getMessageTypeDistribution" =>
               /\ ret.kind = "value"
               /\ SumTypeCounts(ret.value) = Cardinality(counted)
               /\ \A n \in DOMAIN ret.value :
                      ret.value[n].count
                          = Cardinality({i \in counted :
                                t.message[i].type = ret.value[n].type})

\* A query with both bounds: a message at each bound is counted, a message
\* of the sentinel in the range is not, and a message of another member is
\* out of the range.
C19_Witness ==
    /\ ret.op = "getDailyActivity"
    /\ ret.arg.startTs # Undefined
    /\ ret.arg.endTs # Undefined
    /\ ret.value # <<>>
    /\ LET t == dir[ret.id].tables
       IN  /\ \E i \in Counted(t, ret.arg) : t.message[i].ts = ret.arg.startTs
           /\ \E i \in Counted(t, ret.arg) : t.message[i].ts = ret.arg.endTs
           /\ \E i \in DOMAIN t.message :
                  InRange(ret.arg, t.message[i].ts) /\ i \notin Counted(t, ret.arg)
           /\ \E i \in Counted(t, NoFilter) : ~InRange(ret.arg, t.message[i].ts)

(***************************************************************************)
(* C20.  Every handle importData, listSessions, getSession and the         *)
(* analytics queries open is closed when the call returns or throws: after *)
(* any sequence of calls no handle on any file is open.                    *)
(***************************************************************************)
C20_NoHandleStaysOpen == \A id \in Ids : dir[id].open = 0

(***************************************************************************)
(* C21.  After an importData call that fails the directory holds the       *)
(* artifacts it held before the call: no <id>.db, <id>.db-wal or           *)
(* <id>.db-shm of the allocated id is left.                                *)
(***************************************************************************)
\* Which of the three artifacts of an id exist.
Artifacts(d, id) == <<d[id].exists, d[id].wal, d[id].shm>>

C21_FailedImportLeavesNoArtifact ==
    [][(ret'.op = "importData" /\ ret'.kind = "throw") =>
          \A id \in Ids : Artifacts(dir', id) = Artifacts(dir, id)]_vars

(***************************************************************************)
(* C22.  Of an existing session and a time filter, the counts of           *)
(* hourlyActivity, of dailyActivity, of messageTypeDistribution and of     *)
(* memberActivity each add up to the same total; without a filter the      *)
(* total is the messageCount getSession reports.                           *)
(***************************************************************************)
\* The totals of the four aggregates of a dataset under a filter (of the
\* two whose order of equal counts is open, any result: the sum is that of
\* every order).
AggregateTotals(d, id, filter) ==
    [hourly |-> SumCounts(getHourlyActivity(d, id, filter, FALSE).ret.value),
     daily |-> SumCounts(getDailyActivity(d, id, filter, FALSE).ret.value),
     types |-> {SumTypeCounts(r.ret.value) :
                   r \in getMessageTypeDistribution(d, id, filter, FALSE)},
     members |-> {SumCounts(r.ret.value) :
                     r \in getMemberActivity(d, id, filter, FALSE)}]

C22_AggregatesAgree ==
    (/\ ret.op \in {"getHourlyActivity", "getDailyActivity",
                     "getMessageTypeDistribution", "getMemberActivity"}
     /\ dir[ret.id].exists) =>
        LET total == IF ret.op = "getMessageTypeDistribution"
                     THEN SumTypeCounts(ret.value) ELSE SumCounts(ret.value)
            a == AggregateTotals(dir, ret.id, ret.arg)
            session == getSession(dir, ret.id, FALSE).ret
        IN  /\ ret.kind = "value"
            /\ a.hourly = total
            /\ a.daily = total
            /\ a.types = {total}
            /\ a.members = {total}
            /\ (ret.arg = NoFilter /\ session.kind = "value")
                   => session.value.messageCount = total

\* A type distribution of two types under a filter with a bound, on a
\* dataset that stores a message of the sentinel in the range of the filter
\* and a message out of it.
C22_Witness ==
    /\ ret.op = "getMessageTypeDistribution"
    /\ ret.arg # NoFilter
    /\ Len(ret.value) = 2
    /\ LET t == dir[ret.id].tables
       IN  /\ SumTypeCounts(ret.value) >= 2
           /\ \E i \in DOMAIN t.message :
                  InRange(ret.arg, t.message[i].ts) /\ i \notin Counted(t, ret.arg)
           /\ \E i \in DOMAIN t.message : ~InRange(ret.arg, t.message[i].ts)
====
